---- MODULE Spec2Model ----
(***************************************************************************)
(* State machine of data_cleaner.py: the script that denormalizes the      *)
(* cases, vaccination, hesitancy, population and event-marker extracts     *)
(* into a state x week fact table, a national weekly series and a cleaned  *)
(* event-marker table.  The script is straight-line code; each numbered    *)
(* section of it is one action, and pc is the section about to run.        *)
(*                                                                         *)
(* Conventions.  A pandas cell that may be missing is a tuple: <<>> is     *)
(* NaN/NA/None, <<v>> a present integer or string.  A float is <<>> (NaN)  *)
(* or <<n, d>>, the rational n/d with d > 0, or <<1, 0>> for +inf.  A date *)
(* is a day number.  A table is a sequence of records, in row order.       *)
(***************************************************************************)
EXTENDS Integers, Sequences, FiniteSets, TLC

VARIABLES
  pc,          \* section of the script about to run, or "done" / "failed"
  raised,      \* the exception that ended the run ("" while none)
  pop,         \* pop: rows [state_usps, population, state_fips]
  hes,         \* hes: county rows kept after the state mapping
  hes_state,   \* hes_state: rows [state_usps, hesitancy_pct, state_fips]
  cases,       \* cases (= left): cleaned weekly cases/deaths rows
  vax_clean,   \* vax_clean (= right): cleaned vaccination rows
  joined,      \* joined: result of left_join_nearest_week, [cols, rows]
  fact,        \* fact: the state-week fact table
  nat,         \* nat: the national weekly series
  events_out,  \* events_out: the cleaned event markers
  written      \* the output files written so far

vars == <<pc, raised, pop, hes, hes_state, cases, vax_clean, joined, fact,
          nat, events_out, written>>

----------------------------------------------------------------------------
(* Missing values, floats                                                  *)

NA == <<>>

Some(v) == <<v>>

Abs(i) == IF i < 0 THEN -i ELSE i

RECURSIVE GCD(_, _)
GCD(a, b) == IF b = 0 THEN a ELSE GCD(b, a % b)

\* The float n/d in lowest terms; x/0 is +inf for x > 0 and NaN for x = 0
\* (numpy float division; counts and populations are never negative here).
Rat(n, d) ==
  IF d = 0 THEN (IF n = 0 THEN NA ELSE <<1, 0>>)
  ELSE LET g == GCD(Abs(n), d) IN <<n \div g, d \div g>>

IsInf(x) == x # NA /\ x[2] = 0

\* x < y and x > y on floats; any comparison with NaN is False.
FloatLess(x, y) == x # NA /\ y # NA /\ x[1] * y[2] < y[1] * x[2]

Range(s) == {s[i] : i \in 1 .. Len(s)}

----------------------------------------------------------------------------
(* Regions                                                                 *)

\* USPS -> FIPS, restricted to the two codes the model's inputs use.
STATE_TO_FIPS == [AK |-> "02", AL |-> "01"]

\* Position of a region string in ascending string order ("ZZ" is a region
\* string that STATE_TO_FIPS does not declare).
UspsRank(s) == CASE s = "AK" -> 1 [] s = "AL" -> 2 [] OTHER -> 3

\* The keys of a groupby on state_usps, in ascending order.
RECURSIVE SortedKeys(_)
SortedKeys(K) ==
  IF K = {} THEN <<>>
  ELSE LET m == CHOOSE k \in K : \A o \in K : UspsRank(k) <= UspsRank(o)
       IN  <<m>> \o SortedKeys(K \ {m})


----------------------------------------------------------------------------
(* Helpers: cells of the input files, to_iso_date, clean_numeric,          *)
(* find_column                                                             *)

\* A cell of an input file (read with dtype=str): empty, a text that is
\* neither a date nor a number, a numeral n/d (commas and percent signs
\* aside), or a calendar date (day number v).
Empty == [k |-> "empty"]

Text(s) == [k |-> "text", s |-> s]

Num(n, d) == [k |-> "num", n |-> n, d |-> d]

Date(v) == [k |-> "date", v |-> v]

\* to_iso_date: the date of a parsable cell, NaN for a blank or unparsable one.
to_iso_date(x) == IF x.k = "date" THEN Some(x.v) ELSE NA

\* clean_numeric: the float of a numeral, NaN for anything else.
clean_numeric(x) == IF x.k = "num" THEN Rat(x.n, x.d) ELSE NA

\* .astype("Int64") of a column of whole numbers.
AsInt64(f) == IF f = NA THEN NA ELSE Some(f[1])

\* str.lower() on the column names and candidates the model uses; a name
\* without capitals is its own lower case.
Lower(s) ==
  CASE s \in {"State", "STATE"} -> "state"
    [] s = "State Code" -> "state code"
    [] s = "USPS" -> "usps"
    [] s = "Location" -> "location"
    [] s \in {"Estimated hesitant", "ESTIMATED HESITANT"} -> "estimated hesitant"
    [] s = "Estimated_hesitant" -> "estimated_hesitant"
    [] s = "Hesitancy" -> "hesitancy"
    [] s = "County Name" -> "county name"
    [] s = "End Date" -> "end date"
    [] s = "END_DATE" -> "end_date"
    [] s = "Week End Date" -> "week end date"
    [] s = "New Cases" -> "new cases"
    [] s = "NEW_CASES" -> "new_cases"
    [] s = "Cases" -> "cases"
    [] s = "New Deaths" -> "new deaths"
    [] s = "NEW_DEATHS" -> "new_deaths"
    [] s = "Deaths" -> "deaths"
    [] s \in {"Date", "DATE"} -> "date"
    [] s = "Administered_Dose1_Recip_18PlusPop_Pct"
         -> "administered_dose1_recip_18pluspop_pct"
    [] s = "Administered Dose1 Recip 18PlusPop Pct"
         -> "administered dose1 recip 18pluspop pct"
    [] s \in {"Series_Complete_18PlusPop_Pct", "SERIES_COMPLETE_18PLUSPOP_PCT"}
         -> "series_complete_18pluspop_pct"
    [] s = "Series Complete 18PlusPop Pct" -> "series complete 18pluspop pct"
    [] s = "Additional_Doses_18Plus_Vax_Pct" -> "additional_doses_18plus_vax_pct"
    [] s = "Additional Doses 18Plus Vax Pct" -> "additional doses 18plus vax pct"
    [] s = "Booster_18Plus_Pct" -> "booster_18plus_pct"
    [] s = "Booster 18Plus Pct" -> "booster 18plus pct"
    [] s = "Event Date" -> "event date"
    [] s \in {"Event", "EVENT"} -> "event"
    [] s = "Event Name" -> "event name"
    [] s \in {"Source", "SOURCE"} -> "source"
    [] s = "Official_Source_URL" -> "official_source_url"
    [] s = "Official Source URL" -> "official source url"
    [] s = "Source_URL" -> "source_url"
    [] s = "Source URL" -> "source url"
    [] s = "URL" -> "url"
    [] OTHER -> s

\* str.strip() on a column name or candidate: the files' headers are stripped
\* when read and no candidate has outer blanks.
Strip(s) == s

\* The first candidate (in list order) whose key is the key of some column,
\* resolved to the last column with that key (a dict built over df.columns
\* keeps the last column per key); NA when there is none.
FindBy(columns, colKeys, candKeys) ==
  LET hits == {c \in 1 .. Len(candKeys) :
                 \E j \in 1 .. Len(colKeys) : colKeys[j] = candKeys[c]}
  IN  IF hits = {} THEN NA
      ELSE LET c == CHOOSE h \in hits : \A o \in hits : h <= o
               j == CHOOSE h \in 1 .. Len(colKeys) :
                      /\ colKeys[h] = candKeys[c]
                      /\ \A o \in 1 .. Len(colKeys) :
                           colKeys[o] = candKeys[c] => o <= h
           IN  Some(columns[j])

\* find_column without its raise: the column name, or NA (None) when no
\* candidate matches exactly, case-insensitively or stripped.
find_column(columns, candidates) ==
  LET exact == {c \in 1 .. Len(candidates) : candidates[c] \in Range(columns)}
      lower == FindBy(columns,
                      [j \in 1 .. Len(columns) |-> Lower(columns[j])],
                      [c \in 1 .. Len(candidates) |-> Lower(candidates[c])])
  IN  IF exact # {}
        THEN Some(candidates[CHOOSE h \in exact : \A o \in exact : h <= o])
      ELSE IF lower # NA THEN lower
      ELSE FindBy(columns,
                  [j \in 1 .. Len(columns) |-> Strip(columns[j])],
                  [c \in 1 .. Len(candidates) |-> Strip(candidates[c])])

\* df[col] of row i of an input file [columns, rows].
Cell(f, i, col) ==
  f.rows[i][CHOOSE j \in 1 .. Len(f.columns) : f.columns[j] = col]

\* The concatenation of the tables of a sequence of tables.
RECURSIVE Flatten(_)
Flatten(ts) == IF ts = <<>> THEN <<>> ELSE Head(ts) \o Flatten(Tail(ts))

----------------------------------------------------------------------------
(* Sections 1-4: population, hesitancy, cases, vaccinations                *)

Fips(s) == IF s \in DOMAIN STATE_TO_FIPS THEN Some(STATE_TO_FIPS[s]) ELSE NA

\* The rate without its scale factor.
Per100k_no_scale(count, population) ==
  IF count = NA \/ population = NA THEN NA
  ELSE Rat(count[1], population[1])

\* (count / population) * 100000 on floats; NaN when either is missing.
Per100k(count, population) ==
  IF count = NA \/ population = NA THEN NA
  ELSE Rat(count[1] * 100000, population[1])

\* The order of a script that writes each table as soon as it is computed.
StageAfter_write_early(p) ==
  CASE p = "pop" -> "hes"
    [] p = "hes" -> "cases"
    [] p = "cases" -> "vax"
    [] p = "vax" -> "join"
    [] p = "join" -> "keep_cols"
    [] p = "keep_cols" -> "attach"
    [] p = "attach" -> "write_fact"
    [] p = "write_fact" -> "nat"
    [] p = "nat" -> "write_nat"
    [] p = "write_nat" -> "events"
    [] p = "events" -> "write_events"
    [] p = "write_events" -> "done"

\* The order of the script's sections: the section that runs after p.
StageAfter(p) ==
  CASE p = "pop" -> "hes"
    [] p = "hes" -> "cases"
    [] p = "cases" -> "vax"
    [] p = "vax" -> "join"
    [] p = "join" -> "keep_cols"
    [] p = "keep_cols" -> "attach"
    [] p = "attach" -> "nat"
    [] p = "nat" -> "events"
    [] p = "events" -> "write_fact"
    [] p = "write_fact" -> "write_nat"
    [] p = "write_nat" -> "write_events"
    [] p = "write_events" -> "done"

\* The run ends with exception e.
Fail(e) == pc' = "failed" /\ raised' = e

\* A header cell of four digits marks a year column.
IsYearCell(c) == c.k = "num" /\ c.d = 1 /\ c.n >= 1000 /\ c.n <= 9999

\* Full state name -> USPS, restricted like STATE_TO_FIPS.
NAME_TO_USPS == [Alaska |-> "AK", Alabama |-> "AL"]

\* str.replace(r"^\.", "") on the state names of the model's files.
StripDot(s) ==
  CASE s = ".Alaska" -> "Alaska" [] s = ".Alabama" -> "Alabama" [] OTHER -> s

\* The row filter of the population loop: empty names, "nan", and the
\* footnote rows ("Note:", "Source:", ...).
IsSkippedName(s) ==
  s \in {"", "nan", "Note: estimates are as of July 1", "Source: Census Bureau"}

\* pop_col_idx: the column of year 2020 when there is one, else of the first
\* year in the year row (the dict keeps the last column of a repeated year).
PopColIdx(year_row) ==
  LET yearCols == {i \in 1 .. Len(year_row) : IsYearCell(year_row[i])}
      first    == CHOOSE i \in yearCols : \A o \in yearCols : i <= o
      pop_year == IF \E i \in yearCols : year_row[i].n = 2020
                    THEN 2020 ELSE year_row[first].n
  IN  CHOOSE i \in yearCols :
        /\ year_row[i].n = pop_year
        /\ \A o \in yearCols : year_row[o].n = pop_year => o <= i

\* pop_data: one entry per data row that is not skipped.
PopData(pop_raw) ==
  LET idx == PopColIdx(pop_raw[2])
      Entry(row) ==
        LET state_name == IF row[1].k = "text" THEN row[1].s ELSE "nan"
        IN  IF IsSkippedName(state_name) THEN <<>>
            ELSE <<[state_name |-> state_name,
                    population |-> clean_numeric(row[idx])]>>
  IN  Flatten([i \in 1 .. (Len(pop_raw) - 2) |-> Entry(pop_raw[i + 2])])

\* pop: state_usps, population, state_fips of the rows whose name maps to a
\* USPS code and whose population is present.
PopTable(pop_data) ==
  LET Row(e) ==
        LET name == StripDot(e.state_name)
            population == AsInt64(e.population)
        IN  IF name \in DOMAIN NAME_TO_USPS /\ population # NA
              THEN <<[state_usps |-> NAME_TO_USPS[name],
                      population |-> population,
                      state_fips |-> Fips(NAME_TO_USPS[name])]>>
              ELSE <<>>
  IN  Flatten([i \in 1 .. Len(pop_data) |-> Row(pop_data[i])])

\* Section 1: load and clean the population file.
Pop(files) ==
  /\ pc = "pop"
  /\ \E pop_raw \in files :
       IF \A i \in 1 .. Len(pop_raw[2]) : ~IsYearCell(pop_raw[2][i])
         THEN Fail("ValueError: no year columns") /\ UNCHANGED pop
       ELSE IF PopData(pop_raw) = <<>>
         THEN Fail("KeyError: population") /\ UNCHANGED pop
       ELSE /\ pop' = PopTable(PopData(pop_raw))
            /\ pc' = StageAfter(pc)
            /\ UNCHANGED raised
  /\ UNCHANGED <<hes, hes_state, cases, vax_clean, joined, fact, nat,
                 events_out, written>>

\* str.strip().str.upper() on the state cells of the model's files; a cell
\* without lower-case letters is its own upper case.
Upper(s) ==
  CASE s = "ak" -> "AK" [] s = "al" -> "AL" [] s = "Alaska" -> "ALASKA"
    [] s = "Alabama" -> "ALABAMA" [] s = "Guam" -> "GUAM" [] OTHER -> s

\* str.len() == 2 on the upper-cased state values of the model's files.
IsTwoLetters(s) == s \in {"AK", "AL", "ZZ"}

\* The upper-case NAME_TO_USPS of section 2, restricted like STATE_TO_FIPS.
NAME_TO_USPS_UPPER == [ALASKA |-> "AK", ALABAMA |-> "AL"]

\* Sum of a sequence of present floats.
RECURSIVE SumFloats(_)
SumFloats(xs) ==
  IF xs = <<>> THEN <<0, 1>>
  ELSE LET t == SumFloats(Tail(xs))
       IN  Rat(Head(xs)[1] * t[2] + t[1] * Head(xs)[2], Head(xs)[2] * t[2])

\* groupby(...).mean(): the mean of the present values, NaN when none.
MeanSkipNA(xs) ==
  LET Present(x) == x # NA
      vals == SelectSeq(xs, Present)
      t    == SumFloats(vals)
  IN  IF vals = <<>> THEN NA ELSE Rat(t[1], t[2] * Len(vals))

\* hes: the county rows whose state maps to a USPS code.
HesRows(f, state_col, hesitant_col) ==
  LET Row(i) ==
        LET c == Cell(f, i, state_col)
            state_values == IF c.k = "text" THEN Some(Upper(c.s)) ELSE NA
            state_usps ==
              IF state_values = NA THEN NA
              ELSE IF IsTwoLetters(state_values[1]) THEN state_values
              ELSE IF state_values[1] \in DOMAIN NAME_TO_USPS_UPPER
                THEN Some(NAME_TO_USPS_UPPER[state_values[1]])
              ELSE NA
        IN  IF state_usps = NA THEN <<>>
            ELSE <<[county |-> Cell(f, i, "County Name").s,
                    state_usps |-> state_usps[1],
                    estimated_hesitant |->
                      clean_numeric(Cell(f, i, hesitant_col))]>>
  IN  Flatten([i \in 1 .. Len(f.rows) |-> Row(i)])

\* hes_state = hes.groupby("state_usps")["Estimated hesitant"].mean().
HesState(h) ==
  LET keys == SortedKeys({h[i].state_usps : i \in 1 .. Len(h)})
      Group(g) ==
        LET InGroup(x) == x.state_usps = g
            grp == SelectSeq(h, InGroup)
        IN  [i \in 1 .. Len(grp) |-> grp[i].estimated_hesitant]
  IN  [k \in 1 .. Len(keys) |->
         [state_usps |-> keys[k],
          hesitancy_pct |-> MeanSkipNA(Group(keys[k])),
          state_fips |-> Fips(keys[k])]]

HesStateCandidates ==
  <<"State", "state", "State Code", "state_code", "USPS", "usps", "Location",
    "location">>

HesitantCandidates ==
  <<"Estimated hesitant", "estimated hesitant", "Estimated_hesitant",
    "hesitancy", "Hesitancy">>

\* Section 2: load the county hesitancy file and reduce it to states.
Hes(files) ==
  /\ pc = "hes"
  /\ \E f \in files :
       LET state_col    == find_column(f.columns, HesStateCandidates)
           hesitant_col == find_column(f.columns, HesitantCandidates)
       IN  IF state_col = NA \/ hesitant_col = NA
             THEN Fail("ValueError: required column") /\ UNCHANGED <<hes, hes_state>>
             ELSE /\ hes' = HesRows(f, state_col[1], hesitant_col[1])
                  /\ hes_state' = HesState(hes')
                  /\ pc' = StageAfter(pc)
                  /\ UNCHANGED raised
  /\ UNCHANGED <<pop, cases, vax_clean, joined, fact, nat, events_out, written>>

\* cases.merge(pop, on="state_usps", how="left") for one cases row, then the
\* state_fips and per-100k columns.
CasesWithPop(row, p) ==
  LET InState(x) == x.state_usps = row.state_usps
      hits == SelectSeq(p, InState)
      Out(population) ==
        [state_usps |-> row.state_usps, week_end_date |-> row.week_end_date,
         new_cases |-> row.new_cases, new_deaths |-> row.new_deaths,
         population |-> population, state_fips |-> Fips(row.state_usps),
         cases_per_100k |-> Per100k(row.new_cases, population),
         deaths_per_100k |-> Per100k(row.new_deaths, population)]
  IN  IF hits = <<>> THEN <<Out(NA)>>
      ELSE [j \in 1 .. Len(hits) |-> Out(hits[j].population)]

\* cases: the normalized rows with a state and a date, population attached.
CasesRows(f, state_col, end_date_col, new_cases_col, new_deaths_col, p) ==
  LET Row(i) ==
        LET c == Cell(f, i, state_col)
            state_usps == IF c.k = "text" THEN Some(Upper(c.s)) ELSE NA
            week_end_date == to_iso_date(Cell(f, i, end_date_col))
        IN  IF state_usps = NA \/ week_end_date = NA THEN <<>>
            ELSE CasesWithPop(
                   [state_usps |-> state_usps[1],
                    week_end_date |-> week_end_date[1],
                    new_cases |-> AsInt64(clean_numeric(Cell(f, i, new_cases_col))),
                    new_deaths |-> AsInt64(clean_numeric(Cell(f, i, new_deaths_col)))],
                   p)
  IN  Flatten([i \in 1 .. Len(f.rows) |-> Row(i)])

CasesStateCandidates ==
  <<"state", "State", "STATE", "state_code", "State Code", "Location",
    "location">>

EndDateCandidates ==
  <<"end_date", "end date", "End Date", "END_DATE", "week_end_date",
    "Week End Date">>

NewCasesCandidates ==
  <<"new_cases", "new cases", "New Cases", "NEW_CASES", "cases", "Cases">>

NewDeathsCandidates ==
  <<"new_deaths", "new deaths", "New Deaths", "NEW_DEATHS", "deaths", "Deaths">>

\* Section 3: load and clean the weekly cases/deaths file.
Cases(files) ==
  /\ pc = "cases"
  /\ \E f \in files :
       LET state_col      == find_column(f.columns, CasesStateCandidates)
           end_date_col   == find_column(f.columns, EndDateCandidates)
           new_cases_col  == find_column(f.columns, NewCasesCandidates)
           new_deaths_col == find_column(f.columns, NewDeathsCandidates)
       IN  IF NA \in {state_col, end_date_col, new_cases_col, new_deaths_col}
             THEN Fail("ValueError: required column") /\ UNCHANGED cases
             ELSE /\ cases' = CasesRows(f, state_col[1], end_date_col[1],
                                        new_cases_col[1], new_deaths_col[1], pop)
                  /\ pc' = StageAfter(pc)
                  /\ UNCHANGED raised
  /\ UNCHANGED <<pop, hes, hes_state, vax_clean, joined, fact, nat,
                 events_out, written>>

\* vax_clean: the normalized rows with a state and a date; col_boost = NA
\* stands for the all-NaN booster column added when the file has none.
VaxRows(f, location_col, date_col, col_any, col_full, col_boost) ==
  LET Row(i) ==
        LET c == Cell(f, i, location_col)
            state_usps == IF c.k = "text" THEN Some(Upper(c.s)) ELSE NA
            week_end_date_vax == to_iso_date(Cell(f, i, date_col))
        IN  IF state_usps = NA \/ week_end_date_vax = NA THEN <<>>
            ELSE <<[state_usps |-> state_usps[1],
                    week_end_date_vax |-> week_end_date_vax[1],
                    vacc_pct_any_18p |-> clean_numeric(Cell(f, i, col_any)),
                    vacc_pct_full_18p |-> clean_numeric(Cell(f, i, col_full)),
                    booster_pct_18p |->
                      IF col_boost = NA THEN NA
                      ELSE clean_numeric(Cell(f, i, col_boost[1]))]>>
  IN  Flatten([i \in 1 .. Len(f.rows) |-> Row(i)])

LocationCandidates ==
  <<"Location", "location", "State", "state", "STATE", "state_code",
    "State Code">>

VaxDateCandidates ==
  <<"Date", "date", "DATE", "week_end_date", "Week End Date", "end_date">>

AnyDoseCandidates ==
  <<"Administered_Dose1_Recip_18PlusPop_Pct",
    "Administered Dose1 Recip 18PlusPop Pct">>

FullSeriesCandidates ==
  <<"Series_Complete_18PlusPop_Pct", "Series Complete 18PlusPop Pct">>

BoosterCandidates ==
  <<"Additional_Doses_18Plus_Vax_Pct", "Additional Doses 18Plus Vax Pct",
    "Booster_18Plus_Pct", "Booster 18Plus Pct">>

\* Section 4: load and clean the weekly vaccination file.
Vax(files) ==
  /\ pc = "vax"
  /\ \E f \in files :
       LET location_col == find_column(f.columns, LocationCandidates)
           date_col     == find_column(f.columns, VaxDateCandidates)
           col_any      == find_column(f.columns, AnyDoseCandidates)
           col_full     == find_column(f.columns, FullSeriesCandidates)
           col_boost    == find_column(f.columns, BoosterCandidates)
       IN  IF NA \in {location_col, date_col, col_any, col_full}
             THEN Fail("ValueError: required column") /\ UNCHANGED vax_clean
             ELSE /\ vax_clean' = VaxRows(f, location_col[1], date_col[1],
                                          col_any[1], col_full[1], col_boost)
                  /\ pc' = StageAfter(pc)
                  /\ UNCHANGED raised
  /\ UNCHANGED <<pop, hes, hes_state, cases, joined, fact, nat, events_out,
                 written>>

----------------------------------------------------------------------------
(* left_join_nearest_week                                                  *)

max_gap_days == 3

LeftCols ==
  {"state_usps", "week_end_date", "new_cases", "new_deaths", "population",
   "state_fips", "cases_per_100k", "deaths_per_100k", "_left_dt"}

\* Columns the merge adds from r_reset (state_usps is suffixed: it is also a
\* left column).
RightCols ==
  {"state_usps_r", "_right_dt", "week_end_date_vax", "vacc_pct_any_18p",
   "vacc_pct_full_18p", "booster_pct_18p"}

\* Index order of r: (state_usps, _right_dt) ascending.
RightKeyLE(a, b) ==
  \/ UspsRank(a.state_usps) < UspsRank(b.state_usps)
  \/ /\ UspsRank(a.state_usps) = UspsRank(b.state_usps)
     /\ a.week_end_date_vax <= b.week_end_date_vax

\* x put after the rows of the sorted table S whose key is <= its key.
InsertRight(S, x) ==
  LET k == Cardinality({i \in 1 .. Len(S) : RightKeyLE(S[i], x)})
  IN  SubSeq(S, 1, k) \o <<x>> \o SubSeq(S, k + 1, Len(S))

\* r = df_right.set_index(on_keys + [right_date_col]).sort_index(): a stable
\* sort, rows of equal key keep their input order.
RECURSIVE SortRight(_)
SortRight(R) ==
  IF R = <<>> THEN <<>>
  ELSE InsertRight(SortRight(SubSeq(R, 1, Len(R) - 1)), R[Len(R)])

\* r_sub = r.xs(gkeys, ...).reset_index(): the rows of r of one key group,
\* renumbered from 0.
RSub(r, g) ==
  LET InGroup(x) == x.state_usps = g IN SelectSeq(r, InGroup)

\* pick_nearest with the window test written as a strict comparison.
pick_nearest_strict(r_sub, ts) ==
  LET deltas == [i \in 1 .. Len(r_sub) |-> Abs(r_sub[i].week_end_date_vax - ts)]
      idxmin == CHOOSE i \in 1 .. Len(r_sub) :
                  \A j \in 1 .. Len(r_sub) :
                    /\ deltas[i] <= deltas[j]
                    /\ (j < i => deltas[j] > deltas[i])
      days   == deltas[idxmin]
  IN  IF days < max_gap_days THEN Some(idxmin - 1) ELSE NA

\* pick_nearest(ts): the label in r_sub (0-based) of the first row at minimal
\* |date - ts|, or None when that distance exceeds max_gap_days.
pick_nearest(r_sub, ts) ==
  LET deltas == [i \in 1 .. Len(r_sub) |-> Abs(r_sub[i].week_end_date_vax - ts)]
      idxmin == CHOOSE i \in 1 .. Len(r_sub) :
                  \A j \in 1 .. Len(r_sub) :
                    /\ deltas[i] <= deltas[j]
                    /\ (j < i => deltas[j] > deltas[i])
      days   == deltas[idxmin]
  IN  IF days <= max_gap_days THEN Some(idxmin - 1) ELSE NA

\* One group of the loop: grp with its _match_idx column.
MatchGroup(left, r, g) ==
  LET InGroup(x) == x.state_usps = g
      grp   == SelectSeq(left, InGroup)
      r_sub == RSub(r, g)
  IN  [i \in 1 .. Len(grp) |->
         [row |-> grp[i],
          match_idx |-> IF r_sub = <<>> THEN NA
                        ELSE pick_nearest(r_sub, grp[i].week_end_date)]]

RECURSIVE ConcatGroups(_, _, _)
ConcatGroups(left, r, keys) ==
  IF keys = <<>> THEN <<>>
  ELSE MatchGroup(left, r, Head(keys)) \o ConcatGroups(left, r, Tail(keys))

\* L = pd.concat(out_filtered, ignore_index=True)
MatchedLeft(left, r) ==
  ConcatGroups(left, r, SortedKeys({left[i].state_usps : i \in 1 .. Len(left)}))

\* The row of r_reset whose _match_idx (position in the whole sorted r)
\* equals the label pick_nearest returned.
MatchRow(r, idx) == r[idx[1] + 1]

\* L.merge(r_reset, on="_match_idx", how="left"), _match_idx dropped.
MergedRow(m, r) ==
  m.row @@
  (IF m.match_idx = NA
     THEN [state_usps_r |-> NA, week_end_date_vax |-> NA,
           vacc_pct_any_18p |-> NA, vacc_pct_full_18p |-> NA,
           booster_pct_18p |-> NA]
     ELSE LET x == MatchRow(r, m.match_idx)
          IN  [state_usps_r |-> Some(x.state_usps),
               week_end_date_vax |-> Some(x.week_end_date_vax),
               vacc_pct_any_18p |-> x.vacc_pct_any_18p,
               vacc_pct_full_18p |-> x.vacc_pct_full_18p,
               booster_pct_18p |-> x.booster_pct_18p])

left_join_nearest_week(df_left, df_right) ==
  LET r == SortRight(df_right)
      L == MatchedLeft(df_left, r)
  IN  IF df_left = <<>>
        THEN [cols |-> LeftCols, rows |-> <<>>]
        ELSE [cols |-> LeftCols \cup RightCols,
              rows |-> [i \in 1 .. Len(L) |-> MergedRow(L[i], r)]]

\* Some key group of L has no matched row at all: its _match_idx column is
\* of object dtype (all None / pd.NA) while r_reset's is int64.  pandas'
\* merge-key dtype check rejects such a pair in some builds and accepts it in
\* others when both sides have rows; the model keeps both outcomes.
MergeKeyMayBeRejected(df_left, df_right) ==
  LET r == SortRight(df_right)
  IN  /\ df_right # <<>>
      /\ \E g \in {df_left[i].state_usps : i \in 1 .. Len(df_left)} :
           \A m \in Range(MatchGroup(df_left, r, g)) : m.match_idx = NA

----------------------------------------------------------------------------
(* Sections 3-6: the cleaned tables, the join, the fact columns            *)

keep_cols ==
  {"state_usps", "state_fips", "population", "week_end_date",
   "cases_per_100k", "deaths_per_100k",
   "vacc_pct_any_18p", "vacc_pct_full_18p", "booster_pct_18p"}

\* Section 5: joined = left_join_nearest_week(left, right, ["state_usps"], ...)
StepJoin ==
  /\ pc = "join"
  /\ \/ /\ joined' = left_join_nearest_week(cases, vax_clean)
        /\ pc' = StageAfter(pc)
        /\ UNCHANGED raised
     \/ /\ cases # <<>>
        /\ MergeKeyMayBeRejected(cases, vax_clean)
        /\ pc' = "failed"
        /\ raised' = "ValueError: merge on object and int64 columns"
        /\ UNCHANGED joined
  /\ UNCHANGED <<pop, hes, hes_state, cases, vax_clean, fact, nat, events_out,
                 written>>

\* fact = joined[keep_cols].copy(): KeyError when a kept column is absent.
StepKeepCols ==
  /\ pc = "keep_cols"
  /\ IF keep_cols \subseteq joined.cols
       THEN /\ fact' = [i \in 1 .. Len(joined.rows) |->
                          [c \in keep_cols |-> joined.rows[i][c]]]
            /\ pc' = StageAfter(pc)
            /\ UNCHANGED raised
       ELSE /\ pc' = "failed"
            /\ raised' = "KeyError: columns not in index"
            /\ UNCHANGED fact
  /\ UNCHANGED <<pop, hes, hes_state, cases, vax_clean, joined, nat,
                 events_out, written>>

----------------------------------------------------------------------------
(* Sections 6-10: hesitancy, sanity checks, national series, events,       *)
(* outputs                                                                 *)

\* Sort order of fact: (state_usps, week_end_date) ascending.
FactKeyLE(a, b) ==
  \/ UspsRank(a.state_usps) < UspsRank(b.state_usps)
  \/ /\ UspsRank(a.state_usps) = UspsRank(b.state_usps)
     /\ a.week_end_date <= b.week_end_date

InsertFact(S, x) ==
  LET k == Cardinality({i \in 1 .. Len(S) : FactKeyLE(S[i], x)})
  IN  SubSeq(S, 1, k) \o <<x>> \o SubSeq(S, k + 1, Len(S))

\* fact.sort_values(["state_usps", "week_end_date"]): a stable sort.
RECURSIVE SortFact(_)
SortFact(F) ==
  IF F = <<>> THEN <<>>
  ELSE InsertFact(SortFact(SubSeq(F, 1, Len(F) - 1)), F[Len(F)])

\* A sanity check that pulls an impossible percentage to the nearest bound.
SanityPct_clamp(x) ==
  IF FloatLess(x, <<0, 1>>) THEN <<0, 1>>
  ELSE IF FloatLess(<<100, 1>>, x) THEN <<100, 1>>
  ELSE x

\* The sanity check of one percentage: a value below 0 or above 100 becomes
\* NaN, any other value (NaN included) stays.
SanityPct(x) ==
  IF FloatLess(x, <<0, 1>>) \/ FloatLess(<<100, 1>>, x) THEN NA ELSE x

\* hesitancy_pct of a region in hes_state, NaN when it has no row there.
HesitancyOf(hs, s) ==
  LET hits == {i \in 1 .. Len(hs) : hs[i].state_usps = s}
  IN  IF hits = {} THEN NA ELSE hs[CHOOSE i \in hits : TRUE].hesitancy_pct

\* One fact row after sections 6 and 7.
FactRow(x, hs) ==
  [state_fips |-> x.state_fips, state_usps |-> x.state_usps,
   week_end_date |-> x.week_end_date,
   vacc_pct_full_18p |-> SanityPct(x.vacc_pct_full_18p),
   vacc_pct_any_18p |-> SanityPct(x.vacc_pct_any_18p),
   booster_pct_18p |-> SanityPct(x.booster_pct_18p),
   cases_per_100k |-> x.cases_per_100k, deaths_per_100k |-> x.deaths_per_100k,
   hesitancy_pct |-> SanityPct(HesitancyOf(hs, x.state_usps)),
   population |-> x.population]

\* Sections 6 and 7: attach the state hesitancy, sort, blank the impossible
\* percentages, order the columns.
StepAttach ==
  /\ pc = "attach"
  /\ fact' = LET sorted == SortFact(fact)
             IN  [i \in 1 .. Len(sorted) |-> FactRow(sorted[i], hes_state)]
  /\ pc' = StageAfter(pc)
  /\ UNCHANGED <<raised, pop, hes, hes_state, cases, vax_clean, joined, nat,
                 events_out, written>>

\* The rows of a week that enter pop_weighted_avg: value and weight present.
Masked(group, num_col) ==
  LET Keep(x) == x[num_col] # NA /\ x.population # NA
  IN  SelectSeq(group, Keep)

RECURSIVE SumWeights(_)
SumWeights(g) ==
  IF g = <<>> THEN 0 ELSE Head(g).population[1] + SumWeights(Tail(g))

\* np.average raises ZeroDivisionError when the weights sum to zero.
WeightsSumToZero(group, num_col) ==
  Masked(group, num_col) # <<>> /\ SumWeights(Masked(group, num_col)) = 0

\* v * w on floats: inf * 0 is NaN.
TimesWeight(v, w) ==
  IF IsInf(v) THEN (IF w = 0 THEN NA ELSE v) ELSE Rat(v[1] * w, v[2])

\* An average of the same rows that leaves the weights out.
pop_weighted_avg_unweighted(group, num_col) ==
  LET m == Masked(group, num_col)
  IN  MeanSkipNA([i \in 1 .. Len(m) |-> m[i][num_col]])

\* pop_weighted_avg(group, num_col) when it does not raise.
pop_weighted_avg(group, num_col) ==
  LET m     == Masked(group, num_col)
      prods == [i \in 1 .. Len(m) |->
                  TimesWeight(m[i][num_col], m[i].population[1])]
      Finite(x) == ~IsInf(x)
      total == SumFloats(SelectSeq(prods, Finite))
  IN  IF m = <<>> THEN NA
      ELSE IF NA \in Range(prods) THEN NA
      ELSE IF \E x \in Range(prods) : IsInf(x) THEN <<1, 0>>
      ELSE Rat(total[1], total[2] * SumWeights(m))

\* The rows of fact of one week, in order.
WeekGroup(F, w) ==
  LET InWeek(x) == x.week_end_date = w IN SelectSeq(F, InWeek)

\* The weeks of fact in ascending order.
RECURSIVE SortedWeeks(_)
SortedWeeks(W) ==
  IF W = {} THEN <<>>
  ELSE LET m == CHOOSE w \in W : \A o \in W : w <= o
       IN  <<m>> \o SortedWeeks(W \ {m})

NatCols == {"vacc_pct_full_18p", "cases_per_100k", "deaths_per_100k"}

\* nat = fact.groupby("week_end_date").agg(...).sort_values("week_end_date")
NatTable(F) ==
  LET weeks == SortedWeeks({F[i].week_end_date : i \in 1 .. Len(F)})
  IN  [k \in 1 .. Len(weeks) |->
         [week_end_date |-> weeks[k],
          vacc_pct_full_18p |->
            pop_weighted_avg(WeekGroup(F, weeks[k]), "vacc_pct_full_18p"),
          cases_per_100k |->
            pop_weighted_avg(WeekGroup(F, weeks[k]), "cases_per_100k"),
          deaths_per_100k |->
            pop_weighted_avg(WeekGroup(F, weeks[k]), "deaths_per_100k")]]

\* Section 8: the national weekly series.
StepNat ==
  /\ pc = "nat"
  /\ IF \E i \in 1 .. Len(fact), c \in NatCols :
          WeightsSumToZero(WeekGroup(fact, fact[i].week_end_date), c)
       THEN Fail("ZeroDivisionError: weights sum to zero") /\ UNCHANGED nat
       ELSE /\ nat' = NatTable(fact)
            /\ pc' = StageAfter(pc)
            /\ UNCHANGED raised
  /\ UNCHANGED <<pop, hes, hes_state, cases, vax_clean, joined, fact,
                 events_out, written>>

EventDateCandidates == <<"Date", "date", "DATE", "event_date", "Event Date">>

EventCandidates == <<"Event", "event", "EVENT", "event_name", "Event Name">>

SourceCandidates == <<"Source", "source", "SOURCE", "source_name">>

UrlCandidates ==
  <<"Official_Source_URL", "Official Source URL", "official_source_url",
    "Source_URL", "Source URL", "URL", "url">>

\* events_out: the date normalized, the other cells passed through, an
\* absent optional column filled with "".
EventsRows(f, date_col, event_col, source_col, url_col) ==
  [i \in 1 .. Len(f.rows) |->
     [date |-> to_iso_date(Cell(f, i, date_col)),
      event |-> Cell(f, i, event_col),
      source |-> IF source_col = NA THEN Text("") ELSE Cell(f, i, source_col[1]),
      official_source_url |->
        IF url_col = NA THEN Text("") ELSE Cell(f, i, url_col[1])]]

\* Section 9: clean the event markers.
Events(files) ==
  /\ pc = "events"
  /\ \E f \in files :
       LET date_col   == find_column(f.columns, EventDateCandidates)
           event_col  == find_column(f.columns, EventCandidates)
           source_col == find_column(f.columns, SourceCandidates)
           url_col    == find_column(f.columns, UrlCandidates)
       IN  IF date_col = NA \/ event_col = NA
             THEN Fail("ValueError: required column") /\ UNCHANGED events_out
             ELSE /\ events_out' = EventsRows(f, date_col[1], event_col[1],
                                              source_col, url_col)
                  /\ pc' = StageAfter(pc)
                  /\ UNCHANGED raised
  /\ UNCHANGED <<pop, hes, hes_state, cases, vax_clean, joined, fact, nat,
                 written>>

\* The output files.
OUT_FACT == "state_week_fact.csv"

OUT_NAT == "national_week_timeseries.csv"

OUT_EVENTS == "vaccine_event_markers_clean.csv"

\* Section 10: fact.to_csv(OUT_FACT)
WriteFact ==
  /\ pc = "write_fact"
  /\ written' = written \cup {OUT_FACT}
  /\ pc' = StageAfter(pc)
  /\ UNCHANGED <<raised, pop, hes, hes_state, cases, vax_clean, joined, fact,
                 nat, events_out>>

\* nat.to_csv(OUT_NAT)
WriteNat ==
  /\ pc = "write_nat"
  /\ written' = written \cup {OUT_NAT}
  /\ pc' = StageAfter(pc)
  /\ UNCHANGED <<raised, pop, hes, hes_state, cases, vax_clean, joined, fact,
                 nat, events_out>>

\* events_out.to_csv(OUT_EVENTS); the console summary changes nothing.
WriteEvents ==
  /\ pc = "write_events"
  /\ written' = written \cup {OUT_EVENTS}
  /\ pc' = StageAfter(pc)
  /\ UNCHANGED <<raised, pop, hes, hes_state, cases, vax_clean, joined, fact,
                 nat, events_out>>

----------------------------------------------------------------------------
(* The whole run, over a few input files per section                       *)

PopHeader == <<Text("Geographic Area"), Text("Population Estimate")>>

PopFiles ==
  { \* two states, a territory and a footnote under the year 2020
    <<PopHeader, <<Empty, Num(2020, 1)>>,
      <<Text(".Alaska"), Num(1, 1)>>, <<Text(".Alabama"), Num(3, 1)>>,
      <<Text("Puerto Rico"), Num(2, 1)>>,
      <<Text("Note: estimates are as of July 1"), Empty>>>>,
    \* two year columns, 2020 second; Alabama's 2020 cell is blank
    <<PopHeader \o <<Empty>>, <<Empty, Num(2021, 1), Num(2020, 1)>>,
      <<Text(".Alaska"), Num(5, 1), Num(2, 1)>>,
      <<Text(".Alabama"), Num(4, 1), Empty>>>>,
    \* a state without inhabitants
    <<PopHeader, <<Empty, Num(2021, 1)>>,
      <<Text(".Alaska"), Num(0, 1)>>, <<Text(".Alabama"), Num(3, 1)>>>>,
    \* no year in the year row
    <<PopHeader, <<Empty, Text("Estimate")>>, <<Text(".Alaska"), Num(1, 1)>>>>,
    \* footnotes only
    <<PopHeader, <<Empty, Num(2020, 1)>>,
      <<Text("Source: Census Bureau"), Empty>>>> }

HesFiles ==
  { [columns |-> <<"County Name", "State", "Estimated hesitant">>,
     rows |-> << <<Text("c1"), Text("AK"), Num(1, 10)>>,
                 <<Text("c2"), Text("AK"), Num(3, 10)>> >>],
    [columns |-> <<"County Name", "STATE", "ESTIMATED HESITANT">>,
     rows |-> << <<Text("c1"), Text("Alabama"), Num(150, 1)>>,
                 <<Text("c2"), Text("Guam"), Num(1, 10)>>,
                 <<Text("c2"), Text("AK"), Empty>> >>],
    [columns |-> <<"County Name", "Estimated hesitant">>,
     rows |-> << <<Text("c1"), Num(1, 10)>> >>] }

CasesColumns == <<"state", "end_date", "new_cases", "new_deaths">>

CasesFiles ==
  { [columns |-> CasesColumns, rows |-> <<>>],
    [columns |-> CasesColumns,
     rows |-> << <<Text("AK"), Date(0), Num(2, 1), Num(1, 1)>> >>],
    [columns |-> <<"State", "End Date", "New Cases", "New Deaths">>,
     rows |-> << <<Text("AK"), Date(7), Num(2, 1), Num(1, 1)>>,
                 <<Text("al"), Date(7), Num(4, 1), Num(0, 1)>> >>],
    [columns |-> CasesColumns,
     rows |-> << <<Text("AL"), Date(0), Num(0, 1), Empty>>,
                 <<Text("AL"), Date(0), Num(0, 1), Empty>>,
                 <<Text("ZZ"), Date(7), Num(1, 1), Num(1, 1)>>,
                 <<Text("AK"), Text("n/a"), Num(1, 1), Num(1, 1)>>,
                 <<Empty, Date(0), Num(1, 1), Num(1, 1)>> >>],
    [columns |-> <<"state", "end_date", "new_cases">>,
     rows |-> << <<Text("AK"), Date(0), Num(2, 1)>> >>] }

VaxColumns ==
  <<"Location", "Date", "Administered_Dose1_Recip_18PlusPop_Pct",
    "Series_Complete_18PlusPop_Pct">>

VaxFiles ==
  { [columns |-> VaxColumns, rows |-> <<>>],
    [columns |-> VaxColumns,
     rows |-> << <<Text("AL"), Date(6), Num(101, 1), Num(80, 1)>>,
                 <<Text("AK"), Date(1), Num(50, 1), Num(40, 1)>>,
                 <<Text("AK"), Date(11), Num(60, 1), Text("n/a")>> >>],
    [columns |-> <<"state", "date", "Administered_Dose1_Recip_18PlusPop_Pct",
                   "SERIES_COMPLETE_18PLUSPOP_PCT", "Booster_18Plus_Pct">>,
     rows |-> << <<Text("ak"), Date(7), Num(70, 1), Num(60, 1), Num(-1, 1)>>,
                 <<Text("AL"), Date(7), Num(100, 1), Num(0, 1), Num(20, 1)>>,
                 <<Text("AL"), Empty, Num(1, 1), Num(1, 1), Num(1, 1)>> >>],
    [columns |-> <<"Location", "Date", "Administered_Dose1_Recip_18PlusPop_Pct">>,
     rows |-> << <<Text("AK"), Date(0), Num(50, 1)>> >>] }

EventsFiles ==
  { [columns |-> <<"Date", "Event", "Source", "Official_Source_URL">>,
     rows |-> << <<Date(3), Text("EUA issued"), Text("FDA"), Text("fda.gov")>>,
                 <<Text("tbd"), Text("Booster rollout"), Empty, Empty>> >>],
    [columns |-> <<"date", "EVENT">>,
     rows |-> << <<Date(5), Text("Eligibility widened")>> >>],
    [columns |-> <<"Date", "Source">>,
     rows |-> << <<Date(3), Text("FDA")>> >>] }

NoJoined == [cols |-> {}, rows |-> <<>>]

\* The state as the script starts: nothing computed, nothing written.
Init ==
  /\ pc = "pop"
  /\ raised = ""
  /\ pop = <<>> /\ hes = <<>> /\ hes_state = <<>> /\ cases = <<>>
  /\ vax_clean = <<>> /\ joined = NoJoined /\ fact = <<>> /\ nat = <<>>
  /\ events_out = <<>> /\ written = {}

StepPop == Pop(PopFiles)

StepHes == Hes(HesFiles)

StepCases == Cases(CasesFiles)

StepVax == Vax(VaxFiles)

StepEvents == Events(EventsFiles)

Next ==
  \/ StepPop
  \/ StepHes
  \/ StepCases
  \/ StepVax
  \/ StepJoin
  \/ StepKeepCols
  \/ StepAttach
  \/ StepNat
  \/ StepEvents
  \/ WriteFact
  \/ WriteNat
  \/ WriteEvents

Spec == Init /\ [][Next]_vars

----------------------------------------------------------------------------
(* The join on its own: the script at section 5, for any cleaned cases and *)
(* vaccination tables (population and hesitancy files without state rows). *)

MaxJoinRows == 4

JoinStates == {"AK", "AL"}

\* Days span one day more than the tolerance, so that a gap of exactly
\* max_gap_days and a gap of max_gap_days + 1 both occur.
Days == 0 .. (max_gap_days + 1)

JoinLeftRow(s, d) ==
  [state_usps |-> s, week_end_date |-> d, new_cases |-> NA, new_deaths |-> NA,
   population |-> NA, state_fips |-> Fips(s), cases_per_100k |-> NA,
   deaths_per_100k |-> NA]

\* The i-th vaccination row reports 10*i percent fully vaccinated, which
\* tells the rows of a table apart.
JoinRightRow(s, d, i) ==
  [state_usps |-> s, week_end_date_vax |-> d, vacc_pct_any_18p |-> NA,
   vacc_pct_full_18p |-> Rat(10 * i, 1), booster_pct_18p |-> NA]

JoinKeys == JoinStates \X Days

InitJoin ==
  /\ pc = "join"
  /\ raised = ""
  /\ pop = <<>> /\ hes = <<>> /\ hes_state = <<>>
  /\ \E nl \in 0 .. MaxJoinRows :
       \E nr \in 0 .. (MaxJoinRows - nl) :
         \E lk \in [1 .. nl -> JoinKeys], rk \in [1 .. nr -> JoinKeys] :
            /\ cases = [i \in 1 .. nl |-> JoinLeftRow(lk[i][1], lk[i][2])]
            /\ vax_clean = [i \in 1 .. nr |-> JoinRightRow(rk[i][1], rk[i][2], i)]
  /\ joined = NoJoined /\ fact = <<>> /\ nat = <<>> /\ events_out = <<>>
  /\ written = {}

NextJoin == StepJoin \/ StepKeepCols

SpecJoin == InitJoin /\ [][NextJoin]_vars

----------------------------------------------------------------------------
(* Properties of the join                                                  *)

\* The join has returned a table with the right-hand columns.
JoinReturned == RightCols \subseteq joined.cols

JoinedRows == {joined.rows[i] : i \in 1 .. Len(joined.rows)}

\* Dates of the right rows of region s.
RightDates(s) ==
  {vax_clean[j].week_end_date_vax :
     j \in {k \in 1 .. Len(vax_clean) : vax_clean[k].state_usps = s}}

\* Distance in days from left row x to the nearest right date of its region.
NearestGap(x) ==
  LET gaps == {Abs(d - x.week_end_date) : d \in RightDates(x.state_usps)}
  IN  CHOOSE g \in gaps : \A h \in gaps : g <= h

Matched(x) ==
  /\ x.state_usps_r # NA
  /\ x.week_end_date_vax # NA
  /\ x.vacc_pct_full_18p # NA

Unmatched(x) ==
  /\ x.state_usps_r = NA
  /\ x.week_end_date_vax = NA
  /\ x.vacc_pct_any_18p = NA
  /\ x.vacc_pct_full_18p = NA
  /\ x.booster_pct_18p = NA

\* C1: every left row with populated right-hand fields carries the fields of
\* a right row of its own region, and that row's date is the nearest of the
\* region's right dates to the left date.
C1_SameRegionNearest ==
  JoinReturned =>
    \A x \in JoinedRows :
      x.state_usps_r # NA =>
        /\ x.state_usps_r = Some(x.state_usps)
        /\ \E j \in 1 .. Len(vax_clean) :
             /\ vax_clean[j].state_usps = x.state_usps
             /\ x.week_end_date_vax = Some(vax_clean[j].week_end_date_vax)
             /\ x.vacc_pct_full_18p = vax_clean[j].vacc_pct_full_18p
        /\ Abs(x.week_end_date_vax[1] - x.week_end_date) = NearestGap(x)

\* C3: a left row whose nearest right date of the same region is at most
\* max_gap_days away (exactly max_gap_days included) is matched, its
\* right-hand fields populated; one whose nearest right date is
\* max_gap_days + 1 days away or more has all right-hand fields missing.
C3_ToleranceBoundary ==
  JoinReturned =>
    \A x \in JoinedRows :
      RightDates(x.state_usps) # {} =>
        /\ NearestGap(x) <= max_gap_days => Matched(x)
        /\ NearestGap(x) >= max_gap_days + 1 => Unmatched(x)

\* A returned join with one row matched at exactly max_gap_days and another
\* left unmatched at max_gap_days + 1.
C3_Witness ==
  /\ JoinReturned
  /\ \E x, y \in JoinedRows :
       /\ RightDates(x.state_usps) # {} /\ NearestGap(x) = max_gap_days
       /\ Matched(x)
       /\ RightDates(y.state_usps) # {} /\ NearestGap(y) = max_gap_days + 1
       /\ Unmatched(y)

\* C4: when two right dates of a left row's region are equidistant from its
\* date and within the tolerance, the row is joined to the right row of its
\* region with the earlier date, whatever the input row order.
C4_TieEarlierDate ==
  JoinReturned =>
    \A x \in JoinedRows :
      \A d1, d2 \in RightDates(x.state_usps) :
        ( /\ d1 < d2
          /\ x.week_end_date - d1 = d2 - x.week_end_date
          /\ d2 - x.week_end_date = NearestGap(x)
          /\ NearestGap(x) <= max_gap_days )
        => /\ x.state_usps_r = Some(x.state_usps)
           /\ x.week_end_date_vax = Some(d1)

\* C5: no right row is matched by two left rows (each right row of a table
\* reports its own vacc_pct_full_18p, so equal values mean the same row).
C5_RightMatchedOnce ==
  JoinReturned =>
    \A i, j \in 1 .. Len(joined.rows) :
      ( /\ i # j
        /\ joined.rows[i].state_usps = joined.rows[j].state_usps
        /\ Matched(joined.rows[i])
        /\ Matched(joined.rows[j]) )
      => joined.rows[i].vacc_pct_full_18p # joined.rows[j].vacc_pct_full_18p

LeftPart(x) == [c \in DOMAIN JoinLeftRow("AK", 0) |-> x[c]]

\* C6: the join returns one merged row per left row, left columns unchanged
\* and right-hand columns present, with missing right-hand fields for a row
\* whose region has no right row; neither the join nor the selection of the
\* fact columns after it fails, also for an empty left or right table.
C6_JoinTotal ==
  /\ pc # "failed"
  /\ joined # NoJoined =>
       /\ RightCols \subseteq joined.cols
       /\ Len(joined.rows) = Len(cases)
       /\ \A v \in Range(cases) :
            Cardinality({i \in 1 .. Len(cases) : cases[i] = v}) =
            Cardinality({i \in 1 .. Len(joined.rows) :
                           LeftPart(joined.rows[i]) = v})
       /\ \A x \in JoinedRows :
            RightDates(x.state_usps) = {} => Unmatched(x)

----------------------------------------------------------------------------
(* Sections 5-10 on their own: the script at section 5, the cleaned tables *)
(* computed by sections 1-4 from a family of input files.                  *)

\* Largest population in the population file.
MaxPopulation == 2

\* Percentage cells: blank, below 0, 0, inside the range, 100, above 100.
PctCells == {Empty, Num(-1, 1), Num(0, 1), Num(1, 2), Num(100, 1), Num(101, 1)}

\* (any dose, booster) cells of the first vaccination row.
AnyBoostCells ==
  {<<Empty, Empty>>, <<Num(-1, 1), Num(101, 1)>>, <<Num(100, 1), Num(0, 1)>>}

PopCells == {Empty} \cup {Num(n, 1) : n \in 0 .. MaxPopulation}

TailPopFile(pAK, pAL) ==
  <<PopHeader, <<Empty, Num(2020, 1)>>,
    <<Text(".Alaska"), pAK>>, <<Text(".Alabama"), pAL>>>>

TailHesFile(h) ==
  [columns |-> <<"County Name", "State", "Estimated hesitant">>,
   rows |-> << <<Text("c1"), Text("AK"), h>> >>]

\* Two regions over two weeks (days 0 and 7).
TailCasesFile ==
  [columns |-> CasesColumns,
   rows |-> << <<Text("AK"), Date(0), Num(1, 1), Num(0, 1)>>,
               <<Text("AL"), Date(0), Num(1, 1), Num(0, 1)>>,
               <<Text("AK"), Date(7), Num(2, 1), Num(1, 1)>>,
               <<Text("AL"), Date(7), Num(2, 1), Num(1, 1)>> >>]

\* AK reports on both weeks, AL (when it reports) on the second only.
TailVaxFile(ab, fA, fB, withAL) ==
  [columns |-> VaxColumns \o <<"Booster_18Plus_Pct">>,
   rows |-> << <<Text("AK"), Date(0), ab[1], fA, ab[2]>>,
               <<Text("AK"), Date(7), Num(1, 2), fB, Num(1, 2)>> >>
            \o (IF withAL
                  THEN << <<Text("AL"), Date(7), Num(1, 2), Num(1, 2), Num(1, 2)>> >>
                  ELSE <<>>)]

InitTail ==
  /\ pc = "join"
  /\ raised = ""
  /\ \E pAK, pAL \in PopCells, h, fA, fB \in PctCells, ab \in AnyBoostCells,
        withAL \in BOOLEAN :
       /\ pop = PopTable(PopData(TailPopFile(pAK, pAL)))
       /\ hes = HesRows(TailHesFile(h), "State", "Estimated hesitant")
       /\ hes_state = HesState(hes)
       /\ cases = CasesRows(TailCasesFile, "state", "end_date", "new_cases",
                            "new_deaths", pop)
       /\ vax_clean = VaxRows(TailVaxFile(ab, fA, fB, withAL), "Location", "Date",
                              "Administered_Dose1_Recip_18PlusPop_Pct",
                              "Series_Complete_18PlusPop_Pct",
                              Some("Booster_18Plus_Pct"))
  /\ joined = NoJoined /\ fact = <<>> /\ nat = <<>> /\ events_out = <<>>
  /\ written = {}

NextTail ==
  \/ StepJoin
  \/ StepKeepCols
  \/ StepAttach
  \/ StepNat
  \/ StepEvents
  \/ WriteFact
  \/ WriteNat
  \/ WriteEvents

SpecTail == InitTail /\ [][NextTail]_vars

----------------------------------------------------------------------------
(* Properties of the whole run                                             *)

\* Sum and product of the values of a function with a finite domain.
RECURSIVE SumFun(_)
SumFun(f) ==
  IF DOMAIN f = {} THEN 0
  ELSE LET x == CHOOSE y \in DOMAIN f : TRUE
       IN  f[x] + SumFun([y \in DOMAIN f \ {x} |-> f[y]])

RECURSIVE ProdFun(_)
ProdFun(f) ==
  IF DOMAIN f = {} THEN 1
  ELSE LET x == CHOOSE y \in DOMAIN f : TRUE
       IN  f[x] * ProdFun([y \in DOMAIN f \ {x} |-> f[y]])

\* The float x is the real number n/d (d > 0).
IsRatio(x, n, d) == x # NA /\ x[2] > 0 /\ x[1] * d = n * x[2]

\* The weeks of the target range, read as narrowly as possible: the weeks
\* for which the cases input has a row of some declared region.
TargetWeeks ==
  {cases[i].week_end_date :
     i \in {k \in 1 .. Len(cases) : cases[k].state_usps \in DOMAIN STATE_TO_FIPS}}

\* C2: grid completeness.  The written fact table has exactly one row for
\* every declared region and every week of the target range, also when the
\* cases input has no row or several rows for a (region, week) pair.
C2_GridComplete ==
  OUT_FACT \in written =>
    \A R \in DOMAIN STATE_TO_FIPS, W \in TargetWeeks :
      Cardinality({i \in 1 .. Len(fact) :
                     fact[i].state_usps = R /\ fact[i].week_end_date = W}) = 1

\* Largest county population tried as a weight.
MaxCountyPop == 2

\* C8: the hesitancy percentage of a state is the population-weighted mean
\* of its county rows on the 0-100 scale, sum(f_i * p_i) / sum(p_i) * 100,
\* whatever the (positive) populations p_i of its counties are.
C8_PopulationWeightedPct ==
  \A k \in 1 .. Len(hes_state) :
    LET rows == {i \in 1 .. Len(hes) :
                   /\ hes[i].state_usps = hes_state[k].state_usps
                   /\ hes[i].estimated_hesitant # NA}
        D == ProdFun([i \in rows |-> hes[i].estimated_hesitant[2]])
    IN  rows # {} =>
          \A p \in [rows -> 1 .. MaxCountyPop] :
            IsRatio(hes_state[k].hesitancy_pct,
                    100 * SumFun([i \in rows |->
                            hes[i].estimated_hesitant[1]
                            * (D \div hes[i].estimated_hesitant[2]) * p[i]]),
                    D * SumFun(p))

\* C10: all-or-nothing output.  When the run has ended, the output tables
\* written are none or all three, and none when it ended with an exception
\* (an unresolved required column, no year column, or any other abort).
C10_AllOrNothing ==
  /\ pc \in {"done", "failed"} =>
       written \in {{}, {OUT_FACT, OUT_NAT, OUT_EVENTS}}
  /\ pc = "failed" => written = {}
  /\ pc = "done" => written = {OUT_FACT, OUT_NAT, OUT_EVENTS}

\* The run aborted in the last section that can abort (the event markers'
\* required column is not resolved) with the fact table and the national
\* series already computed, and nothing is written.
C10_Witness ==
  /\ pc = "failed"
  /\ raised = "ValueError: required column"
  /\ fact # <<>> /\ nat # <<>>
  /\ written = {}

----------------------------------------------------------------------------
(* Properties of the fact table and of the national series                 *)

PctCols ==
  {"vacc_pct_any_18p", "vacc_pct_full_18p", "booster_pct_18p", "hesitancy_pct"}

VaxPctCols == {"vacc_pct_any_18p", "vacc_pct_full_18p", "booster_pct_18p"}

\* The float x lies within [0, 100].
InRange(x) == x # NA /\ x[2] > 0 /\ 0 <= x[1] /\ x[1] <= 100 * x[2]

BelowRange(x) == x # NA /\ x[1] < 0

AboveRange(x) == x # NA /\ x[1] > 100 * x[2]

\* What the percentage v has to be in the fact table.
Sane(v) == IF InRange(v) THEN v ELSE NA

\* Sections 6 and 7 have run on the selected fact columns.
AttachDone ==
  keep_cols \subseteq joined.cols /\ pc \notin {"join", "keep_cols", "attach"}

\* The hesitancy value section 6 looks up for region s.
StateHesitancy(s) ==
  IF \E k \in 1 .. Len(hes_state) : hes_state[k].state_usps = s
    THEN hes_state[CHOOSE k \in 1 .. Len(hes_state) :
                     hes_state[k].state_usps = s].hesitancy_pct
    ELSE NA

\* C7: once the sanity checks have run (so also in the written fact table)
\* every percentage field of every fact row is missing or within [0, 100];
\* the fact table has the joined rows, each percentage below 0 or above 100
\* replaced by a missing value and each percentage within [0, 100] kept.
C7_PctMissingOrInRange ==
  AttachDone =>
    /\ Len(fact) = Len(joined.rows)
    /\ \A i \in 1 .. Len(fact) :
         \A c \in PctCols : fact[i][c] = NA \/ InRange(fact[i][c])
    /\ \A x \in Range(joined.rows) :
         \E i \in 1 .. Len(fact) :
           /\ fact[i].state_usps = x.state_usps
           /\ fact[i].week_end_date = x.week_end_date
           /\ \A c \in VaxPctCols : fact[i][c] = Sane(x[c])
           /\ fact[i].hesitancy_pct = Sane(StateHesitancy(x.state_usps))

\* A written fact table whose join delivered a percentage below 0, one above
\* 100 and one within the range, and whose hesitancy input is above 100.
C7_Witness ==
  /\ OUT_FACT \in written
  /\ \E x, y, z \in Range(joined.rows) :
       /\ BelowRange(x.vacc_pct_full_18p)
       /\ AboveRange(y.booster_pct_18p)
       /\ InRange(z.vacc_pct_any_18p)
  /\ \E k \in 1 .. Len(hes_state) : AboveRange(hes_state[k].hesitancy_pct)

ZeroWeights == "ZeroDivisionError: weights sum to zero"

\* Section 8 has produced the national series.
NatDone == AttachDone /\ pc # "nat" /\ raised # ZeroWeights

\* Fact rows of week w whose column c and population are both present.
PresentRows(w, c) ==
  {i \in 1 .. Len(fact) :
     /\ fact[i].week_end_date = w
     /\ fact[i][c] # NA
     /\ fact[i].population # NA}

\* Fact rows of week w with a population.
PopulatedRows(w) ==
  {i \in 1 .. Len(fact) :
     fact[i].week_end_date = w /\ fact[i].population # NA}

Population(rows) == SumFun([i \in rows |-> fact[i].population[1]])

\* vacc_pct_full_18p of fact row i, a missing one counted as 0.
FullOrZero(i) ==
  IF fact[i].vacc_pct_full_18p = NA THEN <<0, 1>> ELSE fact[i].vacc_pct_full_18p

\* C9 as stated: for every week the national vacc_pct_full_18p is
\* sum(v_i * p_i) / sum(p_i) over the rows of that week, a missing v_i
\* counted as 0 while its population stays in the denominator.
C9_MissingCountedAsZero ==
  NatDone =>
    \A k \in 1 .. Len(nat) :
      LET rows == PopulatedRows(nat[k].week_end_date)
          D == ProdFun([i \in rows |-> FullOrZero(i)[2]])
      IN  Population(rows) > 0 =>
            IsRatio(nat[k].vacc_pct_full_18p,
                    SumFun([i \in rows |->
                              FullOrZero(i)[1] * (D \div FullOrZero(i)[2])
                              * fact[i].population[1]]),
                    D * Population(rows))

\* C9 amended: the national series has one row per week of the fact table;
\* its vacc_pct_full_18p is sum(v_i * p_i) / sum(p_i) over the fact rows of
\* the week whose percentage and population are both present, and missing
\* when the week has no such row.  The run ends with ZeroDivisionError, and
\* without a national series, exactly when for some week and some national
\* column the populations of the rows having that column sum to 0.
C9_WeightedOverPresent ==
  /\ NatDone =>
       /\ {nat[k].week_end_date : k \in 1 .. Len(nat)} =
            {fact[i].week_end_date : i \in 1 .. Len(fact)}
       /\ \A k, l \in 1 .. Len(nat) :
            nat[k].week_end_date = nat[l].week_end_date => k = l
       /\ \A k \in 1 .. Len(nat) :
            LET rows == PresentRows(nat[k].week_end_date, "vacc_pct_full_18p")
                D == ProdFun([i \in rows |-> fact[i].vacc_pct_full_18p[2]])
            IN  IF rows = {} THEN nat[k].vacc_pct_full_18p = NA
                ELSE IsRatio(nat[k].vacc_pct_full_18p,
                             SumFun([i \in rows |->
                                       fact[i].vacc_pct_full_18p[1]
                                       * (D \div fact[i].vacc_pct_full_18p[2])
                                       * fact[i].population[1]]),
                             D * Population(rows))
  /\ (AttachDone /\ pc # "nat") =>
       ( (pc = "failed" /\ raised = ZeroWeights /\ nat = <<>>)
         <=> \E i \in 1 .. Len(fact), c \in NatCols :
               /\ PresentRows(fact[i].week_end_date, c) # {}
               /\ Population(PresentRows(fact[i].week_end_date, c)) = 0 )

\* A national series for a week in which one region has a percentage and a
\* population and another has a population but no percentage, and for a week
\* in which two regions differ in percentage and in population.
C9_Witness ==
  /\ NatDone
  /\ \E i, j \in 1 .. Len(fact) :
       /\ fact[i].week_end_date = fact[j].week_end_date
       /\ fact[i].vacc_pct_full_18p # NA /\ fact[i].vacc_pct_full_18p[1] > 0
       /\ fact[i].population # NA /\ fact[i].population[1] > 0
       /\ fact[j].vacc_pct_full_18p = NA
       /\ fact[j].population # NA /\ fact[j].population[1] > 0
  /\ \E i, j \in 1 .. Len(fact) :
       /\ fact[i].week_end_date = fact[j].week_end_date
       /\ fact[i].vacc_pct_full_18p # NA /\ fact[j].vacc_pct_full_18p # NA
       /\ fact[i].vacc_pct_full_18p # fact[j].vacc_pct_full_18p
       /\ fact[i].population # NA /\ fact[j].population # NA
       /\ fact[i].population[1] > 0 /\ fact[j].population[1] > 0
       /\ fact[i].population # fact[j].population

----------------------------------------------------------------------------
(* Properties of the regions and of the national rates                     *)

\* C11: a cases row whose region string is not a declared postal code is
\* left out of the fact table: every row of the written fact table has a
\* region of STATE_TO_FIPS, a numeric region code and a population.
C11_UnmappedRegionExcluded ==
  OUT_FACT \in written =>
    \A i \in 1 .. Len(fact) :
      /\ fact[i].state_usps \in DOMAIN STATE_TO_FIPS
      /\ fact[i].state_fips # NA
      /\ fact[i].population # NA

\* The national population: the sum of the entries of the population table.
NationalPopulation == SumFun([i \in 1 .. Len(pop) |-> pop[i].population[1]])

\* Cases rows of week w that report the count count_col.
CountRows(w, count_col) ==
  {i \in 1 .. Len(cases) :
     cases[i].week_end_date = w /\ cases[i][count_col] # NA}

\* Cases rows of week w whose rate of count_col is a number: count and
\* population present and not both 0.
RateRows(w, count_col) ==
  {i \in CountRows(w, count_col) :
     /\ cases[i].population # NA
     /\ ~(cases[i][count_col][1] = 0 /\ cases[i].population[1] = 0)}

Counts(rows, count_col) == SumFun([i \in rows |-> cases[i][count_col][1]])

Populations(rows) == SumFun([i \in rows |-> cases[i].population[1]])

\* x is the national rate of week w as the script forms it.
NationalRate(x, w, count_col) ==
  LET rows == RateRows(w, count_col)
  IN  IF rows = {} THEN x = NA
      ELSE IF \E i \in rows : cases[i].population[1] = 0 THEN x = NA
      ELSE IsRatio(x, 100000 * Counts(rows, count_col), Populations(rows))

\* C12 as stated: for every week the national cases_per_100k and
\* deaths_per_100k are the week's regional counts summed, divided by the
\* national population (all entries of the population table), times
\* 100,000, also when a region has no row, no count or no population
\* (stated for population tables without an entry of 0).
C12_CountsOverNationalPopulation ==
  ( /\ NatDone
    /\ NationalPopulation > 0
    /\ \A j \in 1 .. Len(pop) : pop[j].population[1] > 0 ) =>
    \A k \in 1 .. Len(nat) :
      /\ IsRatio(nat[k].cases_per_100k,
                 100000 * Counts(CountRows(nat[k].week_end_date, "new_cases"),
                                 "new_cases"),
                 NationalPopulation)
      /\ IsRatio(nat[k].deaths_per_100k,
                 100000 * Counts(CountRows(nat[k].week_end_date, "new_deaths"),
                                 "new_deaths"),
                 NationalPopulation)

\* C12 amended: for every week the national cases_per_100k and
\* deaths_per_100k are the population-weighted mean of the regional rates
\* of the rows of that week that have a rate and a population, which is
\* (sum of their counts) / (sum of their populations) * 100,000: a region
\* with no row that week, or with a missing count or population, is left
\* out of both sums.  The value is missing when no row qualifies or when a
\* qualifying row has population 0.
C12_CountsOverReportingPopulation ==
  NatDone =>
    \A k \in 1 .. Len(nat) :
      /\ NationalRate(nat[k].cases_per_100k, nat[k].week_end_date, "new_cases")
      /\ NationalRate(nat[k].deaths_per_100k, nat[k].week_end_date,
                      "new_deaths")

\* A national series for a week in which a region of the population table
\* has no cases row while another region reports cases and deaths with a
\* positive population.
C12_Witness ==
  /\ NatDone
  /\ \E k \in 1 .. Len(nat) :
       /\ \E j \in 1 .. Len(pop) :
            /\ pop[j].population[1] > 0
            /\ \A i \in 1 .. Len(cases) :
                 cases[i].week_end_date = nat[k].week_end_date
                   => cases[i].state_usps # pop[j].state_usps
       /\ \E i \in RateRows(nat[k].week_end_date, "new_cases")
                    \cap RateRows(nat[k].week_end_date, "new_deaths") :
            /\ cases[i].population[1] > 0
            /\ cases[i].new_cases[1] > 0
            /\ cases[i].new_deaths[1] > 0
       /\ nat[k].cases_per_100k # NA
       /\ nat[k].deaths_per_100k # NA

====
